---- MODULE Spec2Model ----
(***************************************************************************)
(* FEL (Factura Electronica en Linea) certification lifecycle of one       *)
(* account.move, as implemented by modulo_infile:                          *)
(*   models/account_move.py   (validation, certify, annul, query, retry)   *)
(*   models/fel_service.py    (configuration, token, XML, remote calls)    *)
(*   models/res_config_settings.py  (the FEL system parameters)            *)
(*                                                                         *)
(* Every handler is a pure operator from the document, the configuration   *)
(* and the remote authority's answers to the document after the call and   *)
(* what the caller sees; one action per handler applies it.                *)
(***************************************************************************)
EXTENDS Integers, Sequences, FiniteSets, TLC

VARIABLES
    move,       \* the account.move record (FEL fields and the fields read)
    icp,        \* ir.config_parameter: fel.usuario_api, fel.llave_api
    prev,       \* the record as it was when the last operation started
    last,       \* what the last operation did, as seen by its caller
    certCount,  \* successful certifications of the document so far
    proc,       \* the certify calls in progress, step by step (SpecPasos)
    arg,        \* the input of the function under study (SpecFunciones)
    res         \* its result

vars == <<move, icp, prev, last, certCount, proc, arg, res>>

\* the variables a specification does not use keep these values
otros == <<proc, arg, res>>
Ninguno == <<>>

(***************************************************************************)
(* Bounds of the model                                                     *)
(***************************************************************************)
\* certCount saturates here: it only has to tell "once" from "more than once"
MaxCertCount == 2

\* the longest list of lines of a document handed to the builder
MaxLineas == 2

\* the longest list descripcion_errores of an answer
MaxErrores == 2

\* the longest tax ID handed to _limpiar_nit
MaxNit == 3

\* the longest short description of a line (the long ones are built apart)
MaxDescripcion == 2

\* the cap of the item description, [:500]
CapDescripcion == 500

(***************************************************************************)
(* Values                                                                  *)
(***************************************************************************)
FelEstados == {"pending", "certified", "cancelled", "error"}

NoPartner == [present |-> FALSE, vat |-> "", name |-> ""]
Partners ==
    { NoPartner,
      [present |-> TRUE, vat |-> "", name |-> ""],
      [present |-> TRUE, vat |-> "12-3k", name |-> "ACME"] }

NoOrigin == [present |-> FALSE, fel_uuid |-> ""]
Origins == { NoOrigin, [present |-> TRUE, fel_uuid |-> "U0"] }

\* account.tax records: amount is the percentage, price_include the flag
IvaIncluido == [name |-> "IVA por Pagar", amount |-> 12, price_include |-> TRUE]
IvaExcluido == [name |-> "iva 12%", amount |-> 12, price_include |-> FALSE]
Timbre      == [name |-> "Timbre 5%", amount |-> 5, price_include |-> FALSE]
Exento      == [name |-> "Exento", amount |-> 0, price_include |-> FALSE]

\* account.move.line records; price_unit in cents, discount in percent
Linea(display_type, quantity, price_unit, discount, tax_ids) ==
    [display_type |-> display_type, quantity |-> quantity,
     price_unit |-> price_unit, discount |-> discount, tax_ids |-> tax_ids]

LineSection == Linea("line_section", 0, 0, 0, <<>>)
LineProduct == Linea("product", 1, 10000, 0, <<IvaIncluido>>)
LineZero    == Linea("product", 0, 10000, 0, <<IvaIncluido>>)
LineSets ==
    { <<>>, <<LineSection, LineZero>>, <<LineSection, LineProduct, LineZero>> }

NoXml == [kind |-> "", tipo |-> "", uuid |-> "", items |-> <<>>,
          total_impuestos |-> 0, gran_total |-> 0, complementos |-> <<>>]

\* outcomes of one HTTP request as the code distinguishes them:
\*   ok         2xx and a JSON object with resultado = true (a token for login)
\*   rejected   2xx and a JSON object with resultado = false
\*   no_token   login: 2xx and a JSON object without token
\*   conn_error requests.exceptions.RequestException (refused, timeout, HTTP status)
\*   malformed  2xx whose body is not a JSON object: a non-UserError exception
SubmitOutcomes == {"ok", "rejected", "conn_error", "malformed"}
LoginOutcomes  == {"ok", "no_token", "conn_error", "malformed"}
GetOutcomes    == {"ok", "conn_error", "malformed"}

Answer(outcome, uuid, serie, numero, xml_certificado) ==
    [outcome |-> outcome, uuid |-> uuid, serie |-> serie, numero |-> numero,
     xml_certificado |-> xml_certificado]

\* the JSON answers of the unified endpoint the model draws from: every field
\* present and absent, a certified XML that is base64 and one that is not, and
\* an answer that carries a key the service does not read (numero_acceso)
SubmitAnswers ==
    { Answer("ok", "U1", "A", "7", "b64:CERT"),
      [outcome |-> "ok", uuid |-> "U2", serie |-> "", numero |-> "",
       xml_certificado |-> "not-base64", numero_acceso |-> "N9"],
      Answer("ok", "", "A", "7", ""),
      Answer("rejected", "", "", "", ""),
      Answer("conn_error", "", "", "", ""),
      Answer("malformed", "", "", "", "") }

AnnulAnswers == { Answer(o, "", "", "", "") : o \in SubmitOutcomes }

(***************************************************************************)
(* Results of calls: exc is "none", "UserError" or "Exception"             *)
(***************************************************************************)
Return(val, calls) == [exc |-> "none", msg |-> <<>>, val |-> val, calls |-> calls]
Raise(exc, msg, calls) == [exc |-> exc, msg |-> msg, val |-> FALSE, calls |-> calls]

\* dict.get(key, default)
Get(d, key, default) == IF key \in DOMAIN d THEN d[key] ELSE default

(***************************************************************************)
(* fel_service.py : configuration                                          *)
(***************************************************************************)
MsgCredenciales == "Configure las credenciales FEL"

\* faulty variant: the credentials not validated
GetConfigSinValidar(p) == Return(p, <<>>)

\* _get_config: the configuration, or UserError when a credential is missing
GetConfig(p) ==
    IF p.usuario_api = "" \/ p.llave_api = ""
      THEN Raise("UserError", <<MsgCredenciales>>, <<>>)
      ELSE Return(p, <<>>)

(***************************************************************************)
(* account_move.py : document type and validation                          *)
(***************************************************************************)
\* _compute_fel_tipo_documento ("" stands for False)
ComputeFelTipoDocumento(move_type, afiliacion) ==
    IF move_type = "out_invoice"
      THEN (IF afiliacion = "PEQ" THEN "FPEQ" ELSE "FACT")
      ELSE IF move_type = "out_refund" THEN "NCRE" ELSE ""

\* _compute_fel_puede_certificar
FelPuedeCertificar(m) ==
    /\ m.state = "posted"
    /\ m.move_type \in {"out_invoice", "out_refund"}
    /\ m.fel_estado \in {"pending", "error"}

When(cond, msg) == IF cond THEN <<msg>> ELSE <<>>

\* faulty variant: the "already certified" test left out
YaCertificadaOmitida(m) == FALSE

\* the "already certified" test of _validar_datos_fel
YaCertificada(m) == m.fel_estado = "certified"

\* _validar_datos_fel: the list errores, in the order the code appends
ValidarDatosFel(m, p) ==
       When(m.state # "posted", "La factura debe estar publicada antes de certificar.")
    \o When(m.move_type \notin {"out_invoice", "out_refund"},
            "Solo se pueden certificar facturas de cliente y notas de credito.")
    \o When(YaCertificada(m), "Este documento ya esta certificado en FEL.")
    \o (IF ~m.partner_id.present
          THEN <<"Debe seleccionar un cliente.">>
          ELSE When(m.partner_id.vat = "" /\ m.partner_id.name = "",
                    "El cliente debe tener NIT o nombre."))
    \o When(m.company_vat = "", "La empresa debe tener NIT configurado.")
    \o When(m.invoice_line_ids = <<>>, "La factura debe tener al menos una linea.")
    \o When(p.usuario_api = "" \/ p.llave_api = "", MsgCredenciales)
    \o When(/\ m.move_type = "out_refund"
            /\ ~m.reversed_entry_id.present /\ m.ref = "",
            "La nota de credito debe tener una factura de origen o referencia.")

(***************************************************************************)
(* fel_service.py : building the XML                                       *)
(***************************************************************************)
\* str.upper() on the characters the model uses
Upper(c) == CASE c = "k" -> "K" [] c = "a" -> "A" [] OTHER -> c

\* _limpiar_nit on a string given as its characters (<<>> is '' or False):
\* re.sub(r'[^0-9kK]', '', str(nit)).upper()
LimpiarNit(nit) ==
    IF nit = <<>> THEN <<"C", "F">>
    ELSE LET limpio ==
                 SelectSeq(nit, LAMBDA c : c \in {"0", "1", "2", "3", "4", "5", "6",
                                                  "7", "8", "9", "k", "K"})
         IN  [i \in DOMAIN limpio |-> Upper(limpio[i])]

Abs(x) == IF x < 0 THEN -x ELSE x

\* float_round(num / den, precision_digits=2) of a non-negative amount whose
\* unit is the cent: the nearest cent, halves up
FloatRound(num, den) == (2 * num + den) \div (2 * den)

RECURSIVE Suma(_)
Suma(s) == IF s = <<>> THEN 0 ELSE Head(s) + Suma(Tail(s))

\* line.tax_ids.compute_all(price, quantity=cantidad) for percentage taxes,
\* price = precio_num / precio_den cents: the base is rounded to the cent, a
\* tax included in the price is taken out of the base, a tax not included is
\* computed on the base without taxes
TasaIncluida(tax_ids) ==
    Suma([i \in DOMAIN tax_ids |->
             IF tax_ids[i].price_include THEN tax_ids[i].amount ELSE 0])

\* the part of the rounded base that is the tax, for a tax included in the price
Incluido(tax, base, tasa_incluida) ==
    IF tax.price_include THEN FloatRound(base * tax.amount, 100 + tasa_incluida)
                         ELSE 0

TotalExcluded(tax_ids, base, tasa_incluida) ==
    base - Suma([i \in DOMAIN tax_ids |-> Incluido(tax_ids[i], base, tasa_incluida)])

Taxes(tax_ids, base, tasa_incluida, total_excluded) ==
    [i \in DOMAIN tax_ids |->
        [name |-> tax_ids[i].name,
         amount |-> IF tax_ids[i].price_include
                      THEN Incluido(tax_ids[i], base, tasa_incluida)
                      ELSE FloatRound(total_excluded * tax_ids[i].amount, 100)]]

TaxData(total_excluded, taxes) ==
    [total_excluded |-> total_excluded,
     total_included |->
         total_excluded + Suma([i \in DOMAIN taxes |-> taxes[i].amount]),
     taxes |-> taxes]

ComputeAllBase(tax_ids, base, tasa_incluida) ==
    TaxData(TotalExcluded(tax_ids, base, tasa_incluida),
            Taxes(tax_ids, base, tasa_incluida,
                  TotalExcluded(tax_ids, base, tasa_incluida)))

ComputeAll(tax_ids, precio_num, precio_den, cantidad) ==
    ComputeAllBase(tax_ids, FloatRound(precio_num * cantidad, precio_den),
                   TasaIncluida(tax_ids))

\* 'IVA' in name.upper(), for the tax names of the model
NombreConIva(name) == name \in {"IVA por Pagar", "iva 12%"}

\* faulty variant: the price handed to the tax engine already without IVA
PrecioSinIvaConDescuento(precio_unitario, descuento_porcentaje) ==
    <<precio_unitario * (100 - descuento_porcentaje) * 100, 100 * 112>>

\* faulty variant: the discount left out of the price handed to the tax engine
PrecioSinDescuento(precio_unitario, descuento_porcentaje) ==
    <<precio_unitario * 100, 100>>

\* precio_unitario * (1 - descuento_porcentaje / 100.0), line 334, as a
\* fraction <<numerator, denominator>> of cents
PrecioConDescuento(precio_unitario, descuento_porcentaje) ==
    <<precio_unitario * (100 - descuento_porcentaje), 100>>

\* lines 346-354: the IVA of the line out of the taxes compute_all returned
\* (100 * iva_amount, so that base * 0.12 stays an integer)
IvaAmount100(tax_data) ==
    LET base_sin_iva == tax_data.total_excluded
        es_iva(t) == \/ NombreConIva(t.name)
                     \/ Abs(100 * t.amount - 12 * base_sin_iva) < 100
        iva_amount ==
            Suma([i \in DOMAIN tax_data.taxes |->
                     IF es_iva(tax_data.taxes[i])
                       THEN tax_data.taxes[i].amount ELSE 0])
    IN  IF iva_amount = 0 /\ base_sin_iva > 0
          THEN 12 * base_sin_iva
          ELSE 100 * iva_amount

\* lines 356-364: monto_impuesto and total_linea
MontoImpuesto(tax_data) == FloatRound(IvaAmount100(tax_data), 100)

\* faulty variant: the total of the tax engine trusted as it comes
TotalLineaDelMotor(monto_gravable, monto_impuesto, total_con_iva) == total_con_iva

TotalLinea(monto_gravable, monto_impuesto, total_con_iva) ==
    IF total_con_iva # monto_gravable + monto_impuesto
      THEN monto_gravable + monto_impuesto
      ELSE total_con_iva

\* lines 368-374: precio_unitario_xml
PrecioUnitarioXml(tax_ids, precio_unitario) ==
    IF \E i \in DOMAIN tax_ids : tax_ids[i].amount > 0 /\ tax_ids[i].price_include
      THEN FloatRound(precio_unitario * 100, 112)
      ELSE precio_unitario

\* lines 366-415: the Item written for a line, given what compute_all returned
ItemXml(numero_linea, cantidad, descuento_porcentaje, precio_unitario_xml, tax_data, monto_impuesto) ==
    [NumeroLinea |-> numero_linea, Cantidad |-> cantidad,
     PrecioUnitario |-> precio_unitario_xml,
     Precio |-> cantidad * precio_unitario_xml,
     Descuento |->
         FloatRound(cantidad * precio_unitario_xml * descuento_porcentaje, 100),
     MontoGravable |-> tax_data.total_excluded,
     MontoImpuesto |-> monto_impuesto,
     Total |-> TotalLinea(tax_data.total_excluded, monto_impuesto,
                          tax_data.total_included)]

\* lines 311-364: the amounts of one line
ItemDe(tax_ids, numero_linea, cantidad, precio_unitario, descuento_porcentaje, tax_data) ==
    ItemXml(numero_linea, cantidad, descuento_porcentaje,
            PrecioUnitarioXml(tax_ids, precio_unitario),
            tax_data, MontoImpuesto(tax_data))

\* lines 311-415: the Item of one line, amounts in cents
Item(line, numero_linea) ==
    ItemDe(line.tax_ids, numero_linea, Abs(line.quantity), Abs(line.price_unit),
           Abs(line.discount),
           ComputeAll(line.tax_ids,
                      PrecioConDescuento(Abs(line.price_unit), Abs(line.discount))[1],
                      PrecioConDescuento(Abs(line.price_unit), Abs(line.discount))[2],
                      Abs(line.quantity)))

\* str.replace(c, entidad) on a string given as its characters
\* (by halves, so that long strings do not nest deeply)
RECURSIVE Replace(_, _, _)
Replace(s, c, entidad) ==
    IF s = <<>> THEN <<>>
    ELSE IF Len(s) = 1 THEN (IF s[1] = c THEN entidad ELSE s)
    ELSE Replace(SubSeq(s, 1, Len(s) \div 2), c, entidad)
         \o Replace(SubSeq(s, Len(s) \div 2 + 1, Len(s)), c, entidad)

\* s[:n]
Cortar(s, n) == SubSeq(s, 1, IF Len(s) < n THEN Len(s) ELSE n)

\* faulty variant: '&' escaped after the other four characters
EscaparAmpAlFinal(s) ==
    Replace(Replace(Replace(Replace(Replace(s,
        "<", <<"&", "l", "t", ";">>),
        ">", <<"&", "g", "t", ";">>),
        "\"", <<"&", "q", "u", "o", "t", ";">>),
        "'", <<"&", "a", "p", "o", "s", ";">>),
        "&", <<"&", "a", "m", "p", ";">>)

\* line 386: the five replace calls, '&' first
Escapar(s) ==
    Replace(Replace(Replace(Replace(Replace(s,
        "&", <<"&", "a", "m", "p", ";">>),
        "<", <<"&", "l", "t", ";">>),
        ">", <<"&", "g", "t", ";">>),
        "\"", <<"&", "q", "u", "o", "t", ";">>),
        "'", <<"&", "a", "p", "o", "s", ";">>)

\* line 385: line.name or line.product_id.name or 'Producto' (<<>> is '' or False)
TextoDescripcion(name, product_name) ==
    IF name # <<>> THEN name
    ELSE IF product_name # <<>> THEN product_name
    ELSE <<"P", "r", "o", "d", "u", "c", "t", "o">>

\* lines 385-386: the Descripcion of an item
Descripcion(name, product_name) ==
    Escapar(Cortar(TextoDescripcion(name, product_name), CapDescripcion))

\* faulty variant: the item numbered before numero_linea is incremented
RECURSIVE ItemsDesdeCero(_, _, _)
ItemsDesdeCero(lineas_factura, i, numero_linea) ==
    IF i > Len(lineas_factura) THEN <<>>
    ELSE (IF Abs(lineas_factura[i].quantity) = 0
            THEN <<>>
            ELSE <<Item(lineas_factura[i], numero_linea)>>)
         \o ItemsDesdeCero(lineas_factura, i + 1, numero_linea + 1)

\* the loop of lines 307-415 from line i on, numero_linea lines counted so far
RECURSIVE Items(_, _, _)
Items(lineas_factura, i, numero_linea) ==
    IF i > Len(lineas_factura) THEN <<>>
    ELSE (IF Abs(lineas_factura[i].quantity) = 0
            THEN <<>>
            ELSE <<Item(lineas_factura[i], numero_linea + 1)>>)
         \o Items(lineas_factura, i + 1, numero_linea + 1)

\* faulty variant: the grand total accumulates the taxable amounts
SumaTotalGravable(items) == Suma([i \in DOMAIN items |-> items[i].MontoGravable])

\* suma_monto_impuesto and suma_total, lines 381-382, 420-421
SumaMontoImpuesto(items) == Suma([i \in DOMAIN items |-> items[i].MontoImpuesto])
SumaTotal(items) == Suma([i \in DOMAIN items |-> items[i].Total])

\* faulty variant: the reference emitted for any origin document
ComplementosSinUuid(m) ==
    IF /\ m.move_type = "out_refund" /\ m.fel_tipo_documento = "NCRE"
       /\ m.reversed_entry_id.present
      THEN <<[IDComplemento |-> "ReferenciasNota",
              MotivoAjuste |-> IF m.ref = "" THEN "Anulacion" ELSE m.ref,
              NumeroAutorizacionDocumentoOrigen |-> m.reversed_entry_id.fel_uuid]>>
      ELSE <<>>

\* lines 430-439: the reference to the origin document of a credit note
Complementos(m) ==
    IF /\ m.move_type = "out_refund" /\ m.fel_tipo_documento = "NCRE"
       /\ m.reversed_entry_id.present /\ m.reversed_entry_id.fel_uuid # ""
      THEN <<[IDComplemento |-> "ReferenciasNota",
              MotivoAjuste |-> IF m.ref = "" THEN "Anulacion" ELSE m.ref,
              NumeroAutorizacionDocumentoOrigen |-> m.reversed_entry_id.fel_uuid]>>
      ELSE <<>>

\* faulty variant: lines of quantity zero pass the filter
EnAlcanceSinCantidad(l) == l.display_type \notin {"line_section", "line_note"}

\* the filter of lines 294-296
EnAlcance(l) == l.display_type \notin {"line_section", "line_note"} /\ l.quantity # 0

\* faulty variant: the test for an empty list of lines left out
GenerarXmlDteSinValidarLineas(m, p) ==
    LET config == GetConfig(p)
        tipo_documento ==
            IF m.fel_tipo_documento = "" THEN "FACT" ELSE m.fel_tipo_documento
        items == Items(SelectSeq(m.invoice_line_ids, EnAlcance), 1, 0)
    IN  IF config.exc # "none" THEN config
        ELSE Return([kind |-> "DTE", tipo |-> tipo_documento, uuid |-> "",
                     items |-> items,
                     total_impuestos |-> SumaMontoImpuesto(items),
                     gran_total |-> SumaTotal(items),
                     complementos |-> Complementos(m)], <<>>)

\* _generar_xml_dte: the DTE, or UserError (credentials, no valid line)
GenerarXmlDte(m, p) ==
    LET config == GetConfig(p)
        tipo_documento ==
            IF m.fel_tipo_documento = "" THEN "FACT" ELSE m.fel_tipo_documento
        lineas_factura == SelectSeq(m.invoice_line_ids, EnAlcance)
        items == Items(lineas_factura, 1, 0)
    IN  IF config.exc # "none" THEN config
        ELSE IF lineas_factura = <<>>
          THEN Raise("UserError",
                     <<"La factura no tiene lineas de producto validas para certificar.">>,
                     <<>>)
          ELSE Return([kind |-> "DTE", tipo |-> tipo_documento, uuid |-> "",
                       items |-> items,
                       total_impuestos |-> SumaMontoImpuesto(items),
                       gran_total |-> SumaTotal(items),
                       complementos |-> Complementos(m)], <<>>)

\* _firmar_xml: returns the XML unchanged
FirmarXml(xml_data) == xml_data

\* _generar_xml_anulacion: the annulment document, or UserError (credentials)
GenerarXmlAnulacion(m, p) ==
    LET config == GetConfig(p)
    IN  IF config.exc # "none" THEN config
        ELSE Return([kind |-> "ANUL", tipo |-> "", uuid |-> m.fel_uuid,
                     items |-> <<>>, total_impuestos |-> 0, gran_total |-> 0,
                     complementos |-> <<>>], <<>>)

(***************************************************************************)
(* fel_service.py : the unified endpoint                                   *)
(***************************************************************************)
\* base64.b64decode(...).decode('utf-8'), with the raw string on failure
DecodificarXmlCertificado(x) == IF x = "b64:CERT" THEN "CERT" ELSE x

\* '; '.join(mensajes): the pieces of the joined string, in order
RECURSIVE Join(_)
Join(mensajes) ==
    IF Len(mensajes) <= 1 THEN mensajes
    ELSE <<Head(mensajes), "; ">> \o Join(Tail(mensajes))

\* faulty variant: only mensaje_error is read from an entry
MensajeDeErrorSinDescripcion(error) == Get(error, "mensaje_error", "")

\* line 538: error.get('mensaje_error', '') or error.get('descripcion', '')
MensajeDeError(error) ==
    IF Get(error, "mensaje_error", "") # ""
      THEN error.mensaje_error
      ELSE Get(error, "descripcion", "")

\* lines 533-543: error_msg of an answer with resultado false, as the pieces
\* of the string
ErrorMsg(data) ==
    LET errores == Get(data, "descripcion_errores", <<>>)
        mensajes_error ==
            SelectSeq([i \in DOMAIN errores |-> MensajeDeError(errores[i])],
                      LAMBDA msg : msg # "")
    IN  IF errores # <<>>
          THEN (IF mensajes_error # <<>>
                  THEN Join(mensajes_error)
                  ELSE <<Get(data, "descripcion", "Error desconocido")>>)
          ELSE <<Get(data, "descripcion", "Error en la certificacion")>>

\* _("Error FEL: %s") % error_msg, line 545: the pieces of the text raised
Texto(msg) == IF msg[1] = "Error FEL: %s" THEN <<"Error FEL: ">> \o msg[2] ELSE msg

\* _certificar_documento
CertificarDocumento(xml_data, p, ans) ==
    LET config == GetConfig(p)
        calls == <<"certificar">>
    IN  IF xml_data = NoXml
          THEN Raise("UserError", <<"No hay XML para certificar.">>, <<>>)
        ELSE IF config.exc # "none" THEN config
        ELSE IF ans.outcome = "conn_error"
          THEN Raise("UserError",
                     <<"Error de conexion al servicio FEL: %s", "RequestException">>, calls)
        ELSE IF ans.outcome = "malformed"
          THEN Raise("Exception", <<"AttributeError">>, calls)
        ELSE IF ans.outcome = "ok"
          THEN Return([resultado |-> TRUE,
                       uuid |-> ans.uuid,
                       serie |-> ans.serie,
                       numero |-> ans.numero,
                       fecha_certificacion |-> "",
                       xml_certificado |->
                           IF ans.xml_certificado # ""
                             THEN DecodificarXmlCertificado(ans.xml_certificado)
                             ELSE "",
                       mensaje |-> "Validado y Certificado Exitosamente"], calls)
        ELSE Raise("UserError", <<"Error FEL: %s", ErrorMsg(ans)>>, calls)

\* _enviar_dte
EnviarDte(xml_data, p, ans) == CertificarDocumento(xml_data, p, ans)

\* _enviar_anulacion
EnviarAnulacion(xml_anulacion, uuid_dte, p, ans) ==
    LET config == GetConfig(p)
        calls == <<"anular">>
    IN  IF xml_anulacion = NoXml
          THEN Raise("UserError", <<"No hay XML de anulacion.">>, <<>>)
        ELSE IF config.exc # "none" THEN config
        ELSE IF ans.outcome = "conn_error"
          THEN Raise("UserError",
                     <<"Error de conexion al anular DTE: %s", "RequestException">>, calls)
        ELSE IF ans.outcome = "malformed"
          THEN Raise("Exception", <<"AttributeError">>, calls)
        ELSE IF ans.outcome = "ok"
          THEN Return([resultado |-> TRUE,
                       mensaje |-> "Documento anulado exitosamente",
                       uuid |-> ans.uuid], calls)
        ELSE Raise("UserError",
                   <<"Error FEL Anulacion: %s", "Error al anular documento">>, calls)

(***************************************************************************)
(* fel_service.py : token and status query                                 *)
(***************************************************************************)
\* _get_token
GetToken(p, login) ==
    LET config == GetConfig(p)
        calls == <<"login">>
    IN  IF config.exc # "none" THEN config
        ELSE IF login = "conn_error"
          THEN Raise("UserError",
                     <<"Error de conexion al servicio FEL: %s", "RequestException">>, calls)
        ELSE IF login = "malformed"
          THEN Raise("Exception", <<"AttributeError">>, calls)
        ELSE IF login = "no_token"
          THEN Raise("UserError", <<"No se obtuvo token FEL.">>, calls)
        ELSE Return("TOKEN", calls)

\* _consultar_dte
ConsultarDte(uuid_dte, p, login, get) ==
    LET config == GetConfig(p)
        token == GetToken(p, login)
        calls == token.calls \o <<"consulta">>
    IN  IF uuid_dte = ""
          THEN Raise("UserError", <<"Debe proporcionar un UUID para consultar.">>, <<>>)
        ELSE IF config.exc # "none" THEN config
        ELSE IF token.exc # "none" THEN token
        ELSE IF get = "conn_error"
          THEN Return([resultado |-> FALSE,
                       mensaje |-> <<"Error al consultar: %s", "RequestException">>], calls)
        ELSE IF get = "malformed"
          THEN Raise("Exception", <<"AttributeError">>, calls)
        ELSE Return([resultado |-> TRUE,
                     mensaje |-> <<"Documento encontrado: %s", "OK">>], calls)

\* consultar_nit: every failure of the request, whatever its class, is
\* raised as UserError (except Exception, lines 141-143)
ConsultarNit(nit, p, post) ==
    LET config == GetConfig(p)
        calls == <<"consulta_nit">>
    IN  IF nit = ""
          THEN Raise("UserError", <<"Debe proporcionar un NIT para consultar.">>, <<>>)
        ELSE IF config.exc # "none" THEN config
        ELSE IF post = "ok"
          THEN Return([nit |-> nit, nombre |-> "", mensaje |-> ""], calls)
        ELSE Raise("UserError", <<"Error al consultar NIT: %s", post>>, calls)

\* consultar_cui: the token is asked for before the try block
ConsultarCui(cui, p, login, post) ==
    LET token == GetToken(p, login)
        calls == token.calls \o <<"consulta_cui">>
    IN  IF cui = ""
          THEN Raise("UserError", <<"Debe proporcionar un CUI para consultar.">>, <<>>)
        ELSE IF token.exc # "none" THEN token
        ELSE IF post = "ok"
          THEN Return([cui |-> cui, nombre |-> "", fallecido |-> FALSE], calls)
        ELSE Raise("UserError", <<"Error al consultar CUI: %s", post>>, calls)

(***************************************************************************)
(* account_move.py : the operations on one document                        *)
(* Each returns the record after the call, the exception the caller gets   *)
(* (exc, msg), the remote requests made (calls), the XML documents built   *)
(* (built) and, for a query, what _consultar_dte returned (consulta).      *)
(***************************************************************************)
Outcome(m, exc, msg, calls, built, consulta) ==
    [move |-> m, exc |-> exc, msg |-> msg, calls |-> calls, built |-> built,
     consulta |-> consulta]

\* str(e) of an exception raised with msg
Str(msg) == msg[Len(msg)]

\* lines 197-207: the write after a successful answer
EscribirCertificado(m, respuesta) ==
    [m EXCEPT !.fel_uuid = Get(respuesta, "uuid", ""),
              !.fel_serie = Get(respuesta, "serie", ""),
              !.fel_numero = Get(respuesta, "numero", ""),
              !.fel_fecha_certificacion = "now",
              !.fel_numero_acceso = Get(respuesta, "numero_acceso", ""),
              !.fel_estado = "certified",
              !.fel_xml_respuesta = Get(respuesta, "xml_certificado", ""),
              !.fel_pdf_url = Get(respuesta, "url_pdf", ""),
              !.fel_error_mensaje = ""]

\* lines 233-241: the except clauses of action_certificar_fel, applied to
\* the exception exc/msg raised in the try block while the record was m
ExceptCertificar(m, exc, msg, calls, built) ==
    IF exc = "UserError"
      THEN Outcome(m, "UserError", msg, calls, built, "none")
      ELSE Outcome([m EXCEPT !.fel_estado = "error",
                             !.fel_error_mensaje = Str(msg)],
                   "UserError", <<"Error al certificar FEL: %s", Str(msg)>>,
                   calls, built, "none")

\* faulty variant: the certification date stamped when the XML is stored
EscribirXmlEnviadoConFecha(m, xml_dte) ==
    [m EXCEPT !.fel_xml_enviado = xml_dte, !.fel_fecha_certificacion = "now"]

\* line 187: move.fel_xml_enviado = xml_dte
EscribirXmlEnviado(m, xml_dte) == [m EXCEPT !.fel_xml_enviado = xml_dte]

\* faulty variant: a validation failure recorded on the document as an error
CertificarFelErrorAlValidar(m, p, ans) ==
    LET errores == ValidarDatosFel(m, p)
        gen == GenerarXmlDte(m, p)
        m1 == EscribirXmlEnviado(m, gen.val)
        env == EnviarDte(FirmarXml(gen.val), p, ans)
        respuesta == env.val
        error_msg == Get(respuesta, "mensaje", "Error desconocido")
    IN  IF errores # <<>>
          THEN Outcome([m EXCEPT !.fel_estado = "error",
                                 !.fel_error_mensaje = "Error de validacion"],
                       "UserError", errores, <<>>, <<>>, "none")
        ELSE IF gen.exc # "none"
          THEN ExceptCertificar(m, gen.exc, gen.msg, <<>>, <<>>)
        ELSE IF env.exc # "none"
          THEN ExceptCertificar(m1, env.exc, env.msg, env.calls, <<"DTE">>)
        ELSE IF Get(respuesta, "resultado", FALSE)
          THEN Outcome(EscribirCertificado(m1, respuesta), "none", <<>>,
                       env.calls, <<"DTE">>, "none")
          ELSE ExceptCertificar(
                   [m1 EXCEPT !.fel_estado = "error",
                              !.fel_error_mensaje = error_msg,
                              !.fel_xml_respuesta = Get(respuesta, "xml_respuesta", "")],
                   "UserError", <<"Error FEL: %s", error_msg>>, env.calls, <<"DTE">>)

\* action_certificar_fel on the recordset of one document
CertificarFel(m, p, ans) ==
    LET errores == ValidarDatosFel(m, p)
        gen == GenerarXmlDte(m, p)
        m1 == EscribirXmlEnviado(m, gen.val)
        env == EnviarDte(FirmarXml(gen.val), p, ans)
        respuesta == env.val
        error_msg == Get(respuesta, "mensaje", "Error desconocido")
    IN  IF errores # <<>>
          THEN Outcome(m, "UserError", errores, <<>>, <<>>, "none")
        ELSE IF gen.exc # "none"
          THEN ExceptCertificar(m, gen.exc, gen.msg, <<>>, <<>>)
        ELSE IF env.exc # "none"
          THEN ExceptCertificar(m1, env.exc, env.msg, env.calls, <<"DTE">>)
        ELSE IF Get(respuesta, "resultado", FALSE)
          THEN Outcome(EscribirCertificado(m1, respuesta), "none", <<>>,
                       env.calls, <<"DTE">>, "none")
          ELSE ExceptCertificar(
                   [m1 EXCEPT !.fel_estado = "error",
                              !.fel_error_mensaje = error_msg,
                              !.fel_xml_respuesta = Get(respuesta, "xml_respuesta", "")],
                   "UserError", <<"Error FEL: %s", error_msg>>, env.calls, <<"DTE">>)

\* faulty variant: the failure recorded on the document, as certify does
ExceptAnularEscribeError(m, exc, msg, calls, built) ==
    Outcome([m EXCEPT !.fel_estado = "error", !.fel_error_mensaje = Str(msg)],
            "UserError", msg, calls, built, "none")

\* lines 282-286: the except clauses of action_anular_fel
ExceptAnular(m, exc, msg, calls, built) ==
    IF exc = "UserError"
      THEN Outcome(m, "UserError", msg, calls, built, "none")
      ELSE Outcome(m, "UserError", <<"Error al anular FEL: %s", Str(msg)>>,
                   calls, built, "none")

\* faulty variant: the UUID test left out
PuedeAnularSinUuid(m) ==
    IF m.fel_estado # "certified"
      THEN <<"Solo se pueden anular documentos certificados.">>
      ELSE <<>>

\* lines 248-252: the preconditions of action_anular_fel
PuedeAnular(m) ==
    IF m.fel_estado # "certified"
      THEN <<"Solo se pueden anular documentos certificados.">>
    ELSE IF m.fel_uuid = ""
      THEN <<"El documento no tiene UUID de certificacion.">>
    ELSE <<>>

\* action_anular_fel on the recordset of one document
AnularFel(m, p, ans) ==
    LET gen == GenerarXmlAnulacion(m, p)
        env == EnviarAnulacion(FirmarXml(gen.val), m.fel_uuid, p, ans)
        respuesta == env.val
    IN  IF PuedeAnular(m) # <<>>
          THEN Outcome(m, "UserError", PuedeAnular(m), <<>>, <<>>, "none")
        ELSE IF gen.exc # "none"
          THEN ExceptAnular(m, gen.exc, gen.msg, <<>>, <<>>)
        ELSE IF env.exc # "none"
          THEN ExceptAnular(m, env.exc, env.msg, env.calls, <<"ANUL">>)
        ELSE IF Get(respuesta, "resultado", FALSE)
          THEN Outcome([m EXCEPT !.fel_estado = "cancelled",
                                 !.fel_xml_respuesta =
                                     Get(respuesta, "xml_respuesta", "")],
                       "none", <<>>, env.calls, <<"ANUL">>, "none")
          ELSE ExceptAnular(m, "UserError",
                            <<"Error al anular: %s", Get(respuesta, "mensaje", "")>>,
                            env.calls, <<"ANUL">>)

\* faulty variant: the state the authority reports is stored on the document
ConsultarFelEscribeEstado(m, p, login, get) ==
    LET resultado == ConsultarDte(m.fel_uuid, p, login, get)
    IN  IF resultado.exc # "none"
          THEN Outcome(m, resultado.exc, resultado.msg, resultado.calls, <<>>, "none")
          ELSE Outcome([m EXCEPT !.fel_error_mensaje = resultado.val.mensaje[1]],
                       "none", resultado.val.mensaje, resultado.calls, <<>>,
                       IF resultado.val.resultado THEN "found" ELSE "failed")

\* action_consultar_fel: exceptions of _consultar_dte reach the caller as raised
ConsultarFel(m, p, login, get) ==
    LET resultado == ConsultarDte(m.fel_uuid, p, login, get)
    IN  IF m.fel_uuid = ""
          THEN Outcome(m, "UserError",
                       <<"El documento no tiene UUID de certificacion.">>,
                       <<>>, <<>>, "none")
        ELSE IF resultado.exc # "none"
          THEN Outcome(m, resultado.exc, resultado.msg, resultado.calls, <<>>, "none")
          ELSE Outcome(m, "none", resultado.val.mensaje, resultado.calls, <<>>,
                       IF resultado.val.resultado THEN "found" ELSE "failed")

\* faulty variant: the error message kept when the state goes back to pending
PrepararReintentoSinLimpiar(m) == [m EXCEPT !.fel_estado = "pending"]

\* lines 324-328: the loop of action_reintentar_fel on one document
PrepararReintento(m) ==
    [m EXCEPT !.fel_estado = "pending", !.fel_error_mensaje = ""]

\* faulty variant: the state test left out
ReintentarFelSinGuarda(m, p, ans) == CertificarFel(PrepararReintento(m), p, ans)

\* action_reintentar_fel on the recordset of one document
ReintentarFel(m, p, ans) ==
    IF m.fel_estado # "error"
      THEN Outcome(m, "UserError",
                   <<"Solo se pueden reintentar documentos con error.">>,
                   <<>>, <<>>, "none")
      ELSE CertificarFel(PrepararReintento(m), p, ans)

(***************************************************************************)
(* The state machine                                                       *)
(***************************************************************************)
States == {"draft", "posted"}
MoveTypes == {"out_invoice", "out_refund", "in_invoice"}
CompanyVats == {"", "456-7"}
Refs == {"", "INV/1"}
UsuarioApiValues == {"", "USR"}
LlaveApiValues == {"", "KEY"}

\* a document as created: FEL fields at their defaults (lines 12-73)
NuevoMove(state, move_type, partner, vat, lines, origin, ref, afiliacion) ==
    [state |-> state, move_type |-> move_type, partner_id |-> partner,
     company_vat |-> vat, invoice_line_ids |-> lines,
     reversed_entry_id |-> origin, ref |-> ref,
     fel_tipo_documento |-> ComputeFelTipoDocumento(move_type, afiliacion),
     fel_uuid |-> "", fel_serie |-> "", fel_numero |-> "",
     fel_fecha_certificacion |-> "", fel_numero_acceso |-> "",
     fel_estado |-> "pending", fel_xml_enviado |-> NoXml,
     fel_xml_respuesta |-> "", fel_pdf_url |-> "", fel_error_mensaje |-> ""]

NoOp == [op |-> "init", exc |-> "none", msg |-> <<>>, calls |-> <<>>,
         built |-> <<>>, consulta |-> "none", outcome |-> <<>>]

Init ==
    /\ \E state \in States, move_type \in MoveTypes, partner \in Partners,
          vat \in CompanyVats, lines \in LineSets, origin \in Origins,
          ref \in Refs :
         move = NuevoMove(state, move_type, partner, vat, lines, origin, ref, "GEN")
    /\ icp \in [usuario_api : UsuarioApiValues, llave_api : LlaveApiValues,
                afiliacion_iva : {"GEN"}]
    /\ prev = move
    /\ last = NoOp
    /\ certCount = 0
    /\ proc = Ninguno /\ arg = Ninguno /\ res = Ninguno

\* the caller's view of an operation; outcome lists what the authority would
\* answer to each request of the operation (whether or not it is sent)
Record(op, r, outcome) ==
    [op |-> op, exc |-> r.exc, msg |-> r.msg, calls |-> r.calls,
     built |-> r.built, consulta |-> r.consulta, outcome |-> outcome]

Min(a, b) == IF a < b THEN a ELSE b

\* certCount counts the calls of action_certificar_fel that returned
Contar(n, r) == IF r.exc = "none" THEN Min(n + 1, MaxCertCount) ELSE n

Certificar == \E ans \in SubmitAnswers :
    LET r == CertificarFel(move, icp, ans)
    IN  /\ move' = r.move
        /\ prev' = move
        /\ last' = Record("certify", r, <<ans.outcome>>)
        /\ certCount' = Contar(certCount, r)
        /\ UNCHANGED <<icp, otros>>

Reintentar == \E ans \in SubmitAnswers :
    LET r == ReintentarFel(move, icp, ans)
    IN  /\ move' = r.move
        /\ prev' = move
        /\ last' = Record("retry", r, <<ans.outcome>>)
        /\ certCount' = Contar(certCount, r)
        /\ UNCHANGED <<icp, otros>>

Anular == \E ans \in AnnulAnswers :
    LET r == AnularFel(move, icp, ans)
    IN  /\ move' = r.move
        /\ prev' = move
        /\ last' = Record("annul", r, <<ans.outcome>>)
        /\ UNCHANGED <<icp, certCount, otros>>

Consultar == \E login \in LoginOutcomes, get \in GetOutcomes :
    LET r == ConsultarFel(move, icp, login, get)
    IN  /\ move' = r.move
        /\ prev' = move
        /\ last' = Record("query", r, <<login, get>>)
        /\ UNCHANGED <<icp, certCount, otros>>

\* res.config.settings saved with other credentials
ConfigurarCredenciales == \E u \in UsuarioApiValues, k \in LlaveApiValues :
    /\ icp' = [icp EXCEPT !.usuario_api = u, !.llave_api = k]
    /\ icp' # icp
    /\ prev' = move
    /\ last' = [NoOp EXCEPT !.op = "config"]
    /\ UNCHANGED <<move, certCount, otros>>

Next ==
    \/ Certificar
    \/ Reintentar
    \/ Anular
    \/ Consultar
    \/ ConfigurarCredenciales

Spec == Init /\ [][Next]_vars

(***************************************************************************)
(* Properties of the lifecycle                                             *)
(***************************************************************************)
CredencialesConfiguradas == GetConfig(icp).exc = "none"

\* C1: over any sequence of certify, retry, annul and query on one document,
\* the document is certified (a successful action_certificar_fel) at most once.
C1_AtMostOnceCertification == certCount <= 1

\* C2: certify on a document whose fel_estado is 'certified' is rejected with
\* a validation failure before any XML is built or any request is sent, and
\* leaves every field of the document unchanged.
C2_CertifyOnCertifiedRejected ==
    (last.op = "certify" /\ prev.fel_estado = "certified") =>
        /\ last.exc = "UserError"
        /\ \E i \in DOMAIN last.msg :
               last.msg[i] = "Este documento ya esta certificado en FEL."
        /\ last.built = <<>>
        /\ last.calls = <<>>
        /\ move = prev

C2_Witness ==
    /\ last.op = "certify"
    /\ prev.fel_estado = "certified"
    /\ prev.fel_uuid # ""
    /\ last.msg = <<"Este documento ya esta certificado en FEL.">>
    /\ move = prev

\* C3: whenever certify passes validation and then fails in the build or the
\* submit step, the document ends with fel_estado = 'error' and the failure
\* message recorded in fel_error_mensaje.
C3_CertifyFailureRecordsError ==
    (/\ last.op = "certify"
     /\ ValidarDatosFel(prev, icp) = <<>>
     /\ last.exc # "none") =>
        /\ move.fel_estado = "error"
        /\ move.fel_error_mensaje # ""

\* C4: every change of fel_estado follows one of the edges pending->certified,
\* pending->error, error->pending, error->certified, certified->cancelled;
\* 'cancelled' is terminal and entered only from 'certified'.
AllowedEdges ==
    { <<"pending", "certified">>, <<"pending", "error">>, <<"error", "pending">>,
      <<"error", "certified">>, <<"certified", "cancelled">> }

C4_OnlyAllowedEdges ==
    move.fel_estado # prev.fel_estado =>
        <<prev.fel_estado, move.fel_estado>> \in AllowedEdges

\* C5: annul builds the annulment, contacts the authority and moves the
\* document to 'cancelled' only when fel_estado = 'certified', fel_uuid is not
\* empty and (for the move) the authority answers with success; otherwise it is
\* rejected without building XML or contacting the authority.
C5_AnnulOnlyCertifiedWithUuid ==
    last.op = "annul" =>
        /\ (last.built # <<>> \/ last.calls # <<>>) =>
               (prev.fel_estado = "certified" /\ prev.fel_uuid # "")
        /\ move.fel_estado # prev.fel_estado =>
               /\ move.fel_estado = "cancelled"
               /\ prev.fel_estado = "certified"
               /\ prev.fel_uuid # ""
               /\ last.outcome = <<"ok">>
               /\ last.calls = <<"anular">>
        /\ (prev.fel_estado # "certified" \/ prev.fel_uuid = "") =>
               /\ last.exc = "UserError"
               /\ last.built = <<>>
               /\ last.calls = <<>>

C5_Witness ==
    /\ last.op = "annul"
    /\ prev.fel_estado = "certified"
    /\ prev.fel_uuid # ""
    /\ last.calls = <<"anular">>
    /\ move.fel_estado = "cancelled"

\* C6: when annul fails for any reason (precondition unmet, credentials,
\* authority rejection, connection failure, unreadable answer) the failure
\* reaches the caller as an error and every field of the document is unchanged.
AnnulFails ==
    \/ PuedeAnular(prev) # <<>>
    \/ ~CredencialesConfiguradas
    \/ last.outcome # <<"ok">>
    \/ last.exc # "none"

C6_AnnulFailureLeavesDocument ==
    (last.op = "annul" /\ AnnulFails) => (last.exc = "UserError" /\ move = prev)

C6_Witness ==
    /\ last.op = "annul"
    /\ prev.fel_estado = "certified"
    /\ prev.fel_uuid # ""
    /\ last.outcome = <<"conn_error">>
    /\ last.calls = <<"anular">>
    /\ last.exc = "UserError"
    /\ move = prev

\* C7: query changes no field of the document, whatever the authority answers;
\* on a document with an empty fel_uuid it is rejected without a remote call.
C7_QueryReadOnly ==
    last.op = "query" =>
        /\ move = prev
        /\ prev.fel_uuid = "" => (last.exc = "UserError" /\ last.calls = <<>>)

C7_Witness ==
    /\ last.op = "query"
    /\ prev.fel_uuid # ""
    /\ last.calls = <<"login", "consulta">>
    /\ last.consulta = "found"
    /\ move = prev

\* C8: a status query with credentials configured and a non-empty UUID never
\* raises on a transport failure of the authentication request or of the GET:
\* it returns a failed result object.
TransportFailure ==
    \/ last.outcome[1] = "conn_error"
    \/ last.outcome[1] = "ok" /\ last.outcome[2] = "conn_error"

C8_QueryNeverRaisesOnTransportFailure ==
    (/\ last.op = "query"
     /\ prev.fel_uuid # ""
     /\ CredencialesConfiguradas
     /\ TransportFailure) =>
        (last.exc = "none" /\ last.consulta = "failed")

\* C9: retry on a document that is not in 'error' fails, makes no remote call
\* and leaves the document unchanged.
C9_RetryOnlyFromError ==
    (last.op = "retry" /\ prev.fel_estado # "error") =>
        /\ last.exc = "UserError"
        /\ last.msg = <<"Solo se pueden reintentar documentos con error.">>
        /\ last.built = <<>>
        /\ last.calls = <<>>
        /\ move = prev

C9_Witness ==
    /\ last.op = "retry"
    /\ prev.fel_estado = "certified"
    /\ last.exc = "UserError"
    /\ last.calls = <<>>
    /\ move = prev

\* C10: retry on a document in 'error' always finishes with the document in
\* 'certified' or in 'error', never in 'pending'.
C10_RetryEndsCertifiedOrError ==
    (last.op = "retry" /\ prev.fel_estado = "error") =>
        move.fel_estado \in {"certified", "error"}

\* C11: certify validation is aggregated: whatever subset of the certify
\* preconditions is unmet (not posted, kind, already certified, recipient,
\* issuer tax ID, no in-scope line, credentials, credit note without origin),
\* one validation failure is raised whose message lists every one of them.
Rango(seq) == { seq[i] : i \in DOMAIN seq }

\* each unmet precondition of m, as the set of messages that report it
PrecondicionesIncumplidas(m, p) ==
    { msgs \in
        { IF m.state # "posted"
            THEN {"La factura debe estar publicada antes de certificar."} ELSE {},
          IF m.move_type \notin {"out_invoice", "out_refund"}
            THEN {"Solo se pueden certificar facturas de cliente y notas de credito."}
            ELSE {},
          IF m.fel_estado = "certified"
            THEN {"Este documento ya esta certificado en FEL."} ELSE {},
          IF ~m.partner_id.present \/ (m.partner_id.vat = "" /\ m.partner_id.name = "")
            THEN {"Debe seleccionar un cliente.", "El cliente debe tener NIT o nombre."}
            ELSE {},
          IF m.company_vat = ""
            THEN {"La empresa debe tener NIT configurado."} ELSE {},
          IF SelectSeq(m.invoice_line_ids, EnAlcance) = <<>>
            THEN {"La factura debe tener al menos una linea.",
                  "La factura no tiene lineas de producto validas para certificar."}
            ELSE {},
          IF p.usuario_api = "" \/ p.llave_api = ""
            THEN {MsgCredenciales} ELSE {},
          IF m.move_type = "out_refund" /\ ~m.reversed_entry_id.present /\ m.ref = ""
            THEN {"La nota de credito debe tener una factura de origen o referencia."}
            ELSE {} } :
        msgs # {} }

C11_ValidationAggregated ==
    (last.op = "certify" /\ PrecondicionesIncumplidas(prev, icp) # {}) =>
        /\ last.exc = "UserError"
        /\ last.calls = <<>>
        /\ \A msgs \in PrecondicionesIncumplidas(prev, icp) :
               msgs \cap Rango(last.msg) # {}

(***************************************************************************)
(* action_certificar_fel step by step: two calls on the same document      *)
(* Each statement that reads or writes the stored record, and the remote   *)
(* request, is one atomic step; the calls share the stored record (move).  *)
(***************************************************************************)
Llamadas == {"a", "b"}

Evento(ev, campos) == [ev |-> ev, campos |-> campos]

\* the fields whose stored value a write changed
Cambios(antes, despues) == { f \in DOMAIN antes : antes[f] # despues[f] }

LlamadaNueva ==
    [pc |-> "inicio", visto |-> "", xml |-> NoXml, env |-> Return(FALSE, <<>>),
     exc |-> "none", msg |-> <<>>, traza |-> <<>>]

DocsPasos ==
    { NuevoMove(state, "out_invoice", [present |-> TRUE, vat |-> "12-3k", name |-> "ACME"],
                "456-7", lines, NoOrigin, "", "GEN") :
        state \in States, lines \in LineSets }

InitPasos ==
    /\ move \in DocsPasos
    /\ icp \in [usuario_api : UsuarioApiValues, llave_api : {"KEY"},
                afiliacion_iva : {"GEN"}]
    /\ prev = move
    /\ last = NoOp
    /\ certCount = 0
    /\ proc = [c \in Llamadas |-> LlamadaNueva]
    /\ arg = Ninguno /\ res = Ninguno

\* line 179: move._validar_datos_fel()
PasoValidar(c) ==
    LET errores == ValidarDatosFel(move, icp)
        traza == Append(proc[c].traza, Evento("validate", {}))
    IN  /\ proc[c].pc = "inicio"
        /\ proc' = [proc EXCEPT ![c] =
               IF errores # <<>>
                 THEN [@ EXCEPT !.pc = "fin", !.visto = move.fel_estado,
                                !.exc = "UserError", !.msg = errores, !.traza = traza]
                 ELSE [@ EXCEPT !.pc = "validado", !.visto = move.fel_estado,
                                !.traza = traza]]
        /\ UNCHANGED <<move, icp, prev, last, certCount, arg, res>>

\* lines 186-187: build the XML and store it in fel_xml_enviado
PasoGenerar(c) ==
    LET gen == GenerarXmlDte(move, icp)
        fallo == ExceptCertificar(move, gen.exc, gen.msg, <<>>, <<>>)
        escrito == EscribirXmlEnviado(move, gen.val)
    IN  /\ proc[c].pc = "validado"
        /\ IF gen.exc # "none"
             THEN /\ move' = fallo.move
                  /\ proc' = [proc EXCEPT ![c] =
                         [@ EXCEPT !.pc = "fin", !.exc = fallo.exc, !.msg = fallo.msg,
                                   !.traza = @ \o <<Evento("build", {})>>]]
             ELSE /\ move' = escrito
                  /\ proc' = [proc EXCEPT ![c] =
                         [@ EXCEPT !.pc = "generado", !.xml = gen.val,
                                   !.traza = @ \o <<Evento("build", {}),
                                                    Evento("write", Cambios(move, escrito))>>]]
        /\ UNCHANGED <<icp, prev, last, certCount, arg, res>>

\* lines 190-193: _firmar_xml, _enviar_dte; the answer is parsed by the service
PasoEnviar(c) == \E ans \in SubmitAnswers :
    LET env == EnviarDte(FirmarXml(proc[c].xml), icp, ans)
    IN  /\ proc[c].pc = "generado"
        /\ proc' = [proc EXCEPT ![c] =
               [@ EXCEPT !.pc = "respondido", !.env = env,
                         !.traza = @ \o (IF env.calls # <<>>
                                           THEN <<Evento("submit", {})>> ELSE <<>>)
                                     \o <<Evento("interpret", {})>>]]
        /\ UNCHANGED <<move, icp, prev, last, certCount, arg, res>>

\* lines 196-241: the write that follows the answer, or the except clauses
PasoEscribir(c) ==
    LET env == proc[c].env
        respuesta == env.val
        error_msg == Get(respuesta, "mensaje", "Error desconocido")
        r == IF env.exc # "none"
               THEN ExceptCertificar(move, env.exc, env.msg, env.calls, <<"DTE">>)
             ELSE IF Get(respuesta, "resultado", FALSE)
               THEN Outcome(EscribirCertificado(move, respuesta), "none", <<>>,
                            env.calls, <<"DTE">>, "none")
               ELSE ExceptCertificar(
                        [move EXCEPT !.fel_estado = "error",
                                     !.fel_error_mensaje = error_msg,
                                     !.fel_xml_respuesta =
                                         Get(respuesta, "xml_respuesta", "")],
                        "UserError", <<"Error FEL: %s", error_msg>>, env.calls, <<"DTE">>)
    IN  /\ proc[c].pc = "respondido"
        /\ move' = r.move
        /\ certCount' = Contar(certCount, r)
        /\ proc' = [proc EXCEPT ![c] =
               [@ EXCEPT !.pc = "fin", !.exc = r.exc, !.msg = r.msg,
                         !.traza = IF r.move # move
                                     THEN Append(@, Evento("write", Cambios(move, r.move)))
                                     ELSE @]]
        /\ UNCHANGED <<icp, prev, last, arg, res>>

NextPasos ==
    \E c \in Llamadas :
        \/ PasoValidar(c)
        \/ PasoGenerar(c)
        \/ PasoEnviar(c)
        \/ PasoEscribir(c)

SpecPasos == InitPasos /\ [][NextPasos]_vars

Certificada(c) == proc[c].pc = "fin" /\ proc[c].exc = "none"
Eventos(c) == { proc[c].traza[i].ev : i \in DOMAIN proc[c].traza }

Antes(c, i, ev) == \E j \in 1..(i - 1) : proc[c].traza[j].ev = ev

OrdenDePasos(c) ==
    \A i \in DOMAIN proc[c].traza :
        LET e == proc[c].traza[i].ev
        IN  /\ e = "validate" => i = 1
            /\ e = "build" => Antes(c, i, "validate")
            /\ e = "submit" => Antes(c, i, "build")
            /\ e = "interpret" => Antes(c, i, "build")

SinEfectoTrasFallo(c) ==
    /\ (proc[c].pc = "fin" /\ proc[c].visto # "" /\ proc[c].xml = NoXml
          /\ ~("build" \in Eventos(c))) => Eventos(c) = {"validate"}
    /\ (proc[c].pc = "fin" /\ proc[c].xml = NoXml) => ~("submit" \in Eventos(c))

C20_NoWriteBeforeAnswer ==
    \A c \in Llamadas :
        /\ OrdenDePasos(c)
        /\ SinEfectoTrasFallo(c)
        /\ \A i \in DOMAIN proc[c].traza :
               proc[c].traza[i].ev = "write" => Antes(c, i, "interpret")

\* C20 as amended: the same order, and the only field written before the
\* answer is interpreted is fel_xml_enviado, stored right after the build.
C20_OnlyXmlWrittenBeforeAnswer ==
    \A c \in Llamadas :
        /\ OrdenDePasos(c)
        /\ SinEfectoTrasFallo(c)
        /\ \A i \in DOMAIN proc[c].traza :
               (proc[c].traza[i].ev = "write" /\ ~Antes(c, i, "interpret")) =>
                   /\ proc[c].traza[i].campos \subseteq {"fel_xml_enviado"}
                   /\ Antes(c, i, "build")

C20_Witness ==
    /\ Certificada("a")
    /\ Len(proc["a"].traza) = 6
    /\ proc["a"].traza[3] = Evento("write", {"fel_xml_enviado"})
    /\ proc["a"].traza[4].ev = "submit"
    /\ proc["a"].traza[6].ev = "write"
    /\ "fel_estado" \in proc["a"].traza[6].campos

(***************************************************************************)
(* Failures of the remote calls and of the build                           *)
(***************************************************************************)
\* the exception class a rejected submission reaches the caller with
ClaseDeRechazo(p) ==
    CertificarDocumento([NoXml EXCEPT !.kind = "DTE"], p,
                        Answer("rejected", "", "", "", "")).exc

\* the exception class a login without token reaches the caller with
ClaseDeAutenticacion(p) == GetToken(p, "no_token").exc

\* a request of the last operation met a connectivity failure
FalloDeConexion ==
    /\ last.op \in {"certify", "retry", "annul", "query"}
    /\ last.calls # <<>>
    /\ last.outcome[Len(last.calls)] = "conn_error"
    /\ ~(last.op = "query" /\ Len(last.calls) = 2)

\* C18: a connectivity failure in authenticate, submit or annul reaches the
\* caller as a failure (never a success result) whose kind differs from the
\* kind of a rejection by the authority and of an authentication failure.
C18_ConnectivityDistinctKind ==
    FalloDeConexion =>
        /\ last.exc # "none"
        /\ last.exc # ClaseDeRechazo(icp)
        /\ last.exc # ClaseDeAutenticacion(icp)

\* a line the document builder must leave out
Excluida(l) == l.quantity = 0 \/ l.display_type \in {"line_section", "line_note"}

SinLineasEnAlcance(m) ==
    \A i \in DOMAIN m.invoice_line_ids : Excluida(m.invoice_line_ids[i])

\* C19: certifying a document whose lines are all sections, notes or of
\* quantity zero fails; no XML is built or stored and no request is sent; when
\* the build is reached the failure is the builder's no-lines error.
C19_EmptyScopeBuildsNothing ==
    (last.op \in {"certify", "retry"} /\ SinLineasEnAlcance(prev)) =>
        /\ last.exc = "UserError"
        /\ last.built = <<>>
        /\ last.calls = <<>>
        /\ move.fel_xml_enviado = prev.fel_xml_enviado
        /\ (/\ ValidarDatosFel(prev, icp) = <<>>
            /\ (last.op = "retry" => prev.fel_estado = "error")) =>
               last.msg =
                 <<"La factura no tiene lineas de producto validas para certificar.">>

C19_Witness ==
    /\ last.op = "certify"
    /\ prev.invoice_line_ids = <<LineSection, LineZero>>
    /\ ValidarDatosFel(prev, icp) = <<>>
    /\ last.msg = <<"La factura no tiene lineas de producto validas para certificar.">>

(***************************************************************************)
(* The builder and the answer parser as functions: arg is the input of the *)
(* last application, res its result                                        *)
(***************************************************************************)
SeqHasta(S, n) == UNION { [1..k -> S] : k \in 0..n }

LineasXml ==
    { Linea("product", 2, 10000, 0, <<IvaIncluido>>),
      Linea("product", 1, 3333, 10, <<IvaExcluido>>),
      Linea("product", 3, 999, 0, <<>>),
      Linea("product", 1, 10000, 100, <<IvaIncluido>>),
      Linea("product", 3, 999, 100, <<>>),
      Linea("product", 2, 5000, 100, <<Timbre>>),
      Linea("product", 2, 5000, 0, <<Timbre>>),
      Linea("product", 1, 2500, 0, <<Exento>>),
      Linea("product", -1, 10000, 0, <<IvaIncluido>>),
      Linea("product", 0, 10000, 0, <<IvaIncluido>>),
      Linea("line_section", 0, 0, 0, <<>>),
      Linea("line_note", 0, 0, 0, <<>>) }

OrigenesXml ==
    { NoOrigin, [present |-> TRUE, fel_uuid |-> ""], [present |-> TRUE, fel_uuid |-> "U0"] }

\* fel_tipo_documento is stored and editable: "" keeps the computed type
TiposEditados == {"", "NDEB"}

\* a posted customer document with these lines
DocXml(move_type, lines, origin, tipo) ==
    LET m == NuevoMove("posted", move_type,
                       [present |-> TRUE, vat |-> "12-3k", name |-> "ACME"],
                       "456-7", lines, origin, "", "GEN")
    IN  IF tipo = "" THEN m ELSE [m EXCEPT !.fel_tipo_documento = tipo]

\* invoices, which have no origin document, and refunds with every origin
DocsXml ==
    { DocXml("out_invoice", lines, NoOrigin, "") :
        lines \in SeqHasta(LineasXml, MaxLineas) }
    \cup
    { DocXml("out_refund", lines, origin, tipo) :
        lines \in SeqHasta(LineasXml, MaxLineas),
        origin \in OrigenesXml, tipo \in TiposEditados }

\* the entries of descripcion_errores: either field present, empty or absent
EntradasError ==
    { [mensaje_error |-> "m1"],
      [mensaje_error |-> "", descripcion |-> "d2"],
      [descripcion |-> "d3"],
      [mensaje_error |-> "m4", descripcion |-> "d4"],
      [mensaje_error |-> ""],
      [codigo |-> "9"] }

\* JSON answers with resultado false
RespuestasRechazo ==
    { [outcome |-> "rejected", descripcion_errores |-> errores] :
        errores \in SeqHasta(EntradasError, MaxErrores) }
    \cup
    { [outcome |-> "rejected", descripcion_errores |-> errores,
       descripcion |-> "Documento rechazado"] :
        errores \in SeqHasta(EntradasError, MaxErrores) }
    \cup
    { [outcome |-> "rejected"], [outcome |-> "rejected", descripcion |-> "Documento rechazado"] }

ConfigXml == [usuario_api |-> "USR", llave_api |-> "KEY", afiliacion_iva |-> "GEN"]

InitFunciones ==
    /\ move = NuevoMove("posted", "out_invoice", NoPartner, "", <<>>, NoOrigin, "", "GEN")
    /\ icp = ConfigXml
    /\ prev = move
    /\ last = NoOp
    /\ certCount = 0
    /\ proc = Ninguno
    /\ arg = Ninguno
    /\ res = Ninguno

\* one application per behaviour: the functions keep no state between calls
AplicarGenerarXmlDte == \E m \in DocsXml :
    /\ arg = Ninguno
    /\ arg' = [fn |-> "_generar_xml_dte", move |-> m]
    /\ res' = GenerarXmlDte(m, icp)
    /\ UNCHANGED <<move, icp, prev, last, certCount, proc>>

AplicarCertificarDocumento == \E data \in RespuestasRechazo :
    /\ arg = Ninguno
    /\ arg' = [fn |-> "_certificar_documento", data |-> data]
    /\ res' = CertificarDocumento([NoXml EXCEPT !.kind = "DTE"], icp, data)
    /\ UNCHANGED <<move, icp, prev, last, certCount, proc>>

\* the characters of the tax IDs: digits, the letter K, other letters, signs
CaracteresNit == {"1", "7", "k", "K", "a", "B", "-", " "}

AplicarLimpiarNit == \E nit \in SeqHasta(CaracteresNit, MaxNit) :
    /\ arg = Ninguno
    /\ arg' = [fn |-> "_limpiar_nit", nit |-> nit]
    /\ res' = LimpiarNit(nit)
    /\ UNCHANGED <<move, icp, prev, last, certCount, proc>>

\* the methods of fel.service that talk to the authority
Servicios ==
    {"_get_token", "_certificar_documento", "_enviar_anulacion", "_consultar_dte",
     "consultar_nit", "consultar_cui"}

Configs ==
    [usuario_api : UsuarioApiValues, llave_api : LlaveApiValues, afiliacion_iva : {"GEN"}]

\* the method fn called with its argument (an XML, a UUID, a NIT, a CUI)
\* empty or not, under configuration p; login and post are what the
\* authority would answer
Servicio(fn, vacio, p, login, post) ==
    LET dato == IF vacio THEN "" ELSE "X"
        xml == IF vacio THEN NoXml ELSE [NoXml EXCEPT !.kind = "DTE"]
    IN  CASE fn = "_get_token" -> GetToken(p, login)
          [] fn = "_certificar_documento" ->
                 CertificarDocumento(xml, p, Answer(post, "U1", "A", "7", ""))
          [] fn = "_enviar_anulacion" ->
                 EnviarAnulacion(xml, "U1", p, Answer(post, "", "", "", ""))
          [] fn = "_consultar_dte" ->
                 ConsultarDte(dato, p, login,
                              IF post = "rejected" THEN "ok" ELSE post)
          [] fn = "consultar_nit" -> ConsultarNit(dato, p, post)
          [] fn = "consultar_cui" -> ConsultarCui(dato, p, login, post)

AplicarServicio ==
    \E fn \in Servicios, vacio \in BOOLEAN, p \in Configs,
       login \in LoginOutcomes, post \in SubmitOutcomes :
        /\ arg = Ninguno
        /\ arg' = [fn |-> "servicio", metodo |-> fn, vacio |-> vacio, p |-> p,
                   login |-> login, post |-> post]
        /\ res' = Servicio(fn, vacio, p, login, post)
        /\ UNCHANGED <<move, icp, prev, last, certCount, proc>>

CaracteresDescripcion == {"a", ";", "&", "<", ">", "\"", "'"}

\* a description one character longer than the cap, its last two characters
\* c and d
DescripcionLarga(c, d) ==
    [i \in 1..(CapDescripcion + 1) |->
        IF i = CapDescripcion THEN c ELSE IF i = CapDescripcion + 1 THEN d ELSE "a"]

\* line.name: short texts, a text that already holds an entity, long texts
NombresDeLinea ==
    SeqHasta(CaracteresDescripcion, MaxDescripcion)
    \cup { <<"&", "a", "m", "p", ";">>, <<"&", "l", "t", ";", "<">> }
    \cup { DescripcionLarga(c, d) : c, d \in CaracteresDescripcion }

\* line.product_id.name
NombresDeProducto == { <<>>, <<"T", "&", "E">> }

AplicarDescripcion == \E name \in NombresDeLinea, product_name \in NombresDeProducto :
    /\ arg = Ninguno
    /\ arg' = [fn |-> "descripcion", name |-> name, product_name |-> product_name]
    /\ res' = Descripcion(name, product_name)
    /\ UNCHANGED <<move, icp, prev, last, certCount, proc>>

NextFunciones ==
    \/ AplicarDescripcion
    \/ AplicarGenerarXmlDte
    \/ AplicarCertificarDocumento
    \/ AplicarLimpiarNit
    \/ AplicarServicio

SpecFunciones == InitFunciones /\ [][NextFunciones]_vars

\* the last application built a document
Construido == arg # Ninguno /\ arg.fn = "_generar_xml_dte" /\ res.exc = "none"

\* how many of the first k lines the builder must keep
Incluidas(lineas, k) == Cardinality({i \in 1..k : ~Excluida(lineas[i])})

RECURSIVE SumaCampo(_, _)
SumaCampo(items, campo) ==
    IF items = <<>> THEN 0 ELSE Head(items)[campo] + SumaCampo(Tail(items), campo)

\* C13: the lines of quantity zero and the section and note lines are no
\* Item, take no line number and add nothing to the totals: the items are as
\* many as the other lines, numbered 1, 2, ... without gap, and the document
\* built is the one built without those lines.
C13_ExcludedLinesLeaveNoTrace ==
    Construido =>
        LET lineas == arg.move.invoice_line_ids
            sin_excluidas ==
                GenerarXmlDte([arg.move EXCEPT !.invoice_line_ids =
                                   SelectSeq(lineas, LAMBDA l : ~Excluida(l))], icp)
        IN  /\ Len(res.val.items) = Incluidas(lineas, Len(lineas))
            /\ \A k \in DOMAIN res.val.items : res.val.items[k].NumeroLinea = k
            /\ sin_excluidas.exc = "none"
            /\ res.val.total_impuestos = sin_excluidas.val.total_impuestos
            /\ res.val.gran_total = sin_excluidas.val.gran_total
            /\ res.val.items = sin_excluidas.val.items

C13_Witness ==
    /\ Construido
    /\ Len(arg.move.invoice_line_ids) = 2
    /\ Excluida(arg.move.invoice_line_ids[1])
    /\ arg.move.invoice_line_ids[1].display_type = "product"
    /\ Len(res.val.items) = 1
    /\ res.val.items[1].NumeroLinea = 1
    /\ res.val.gran_total = res.val.items[1].Total

\* C14: in every built document GranTotal is the sum of the items' Total and
\* TotalMontoImpuesto the sum of the items' MontoImpuesto, in cents.
C14_TotalsAreSumsOfItems ==
    Construido =>
        /\ res.val.gran_total = SumaCampo(res.val.items, "Total")
        /\ res.val.total_impuestos = SumaCampo(res.val.items, "MontoImpuesto")

C14_Witness ==
    /\ Construido
    /\ Len(res.val.items) = 2
    /\ res.val.items[1].MontoImpuesto > 0
    /\ res.val.items[2].MontoImpuesto > 0
    /\ res.val.items[1].Total # res.val.items[2].Total
    /\ res.val.gran_total = res.val.items[1].Total + res.val.items[2].Total

\* the line of the scenario: 2 units at 100.00, no discount, 12% in the price
LineaEscenario(l) ==
    /\ l.display_type = "product" /\ l.quantity = 2 /\ l.price_unit = 10000
    /\ l.discount = 0
    /\ Len(l.tax_ids) = 1 /\ l.tax_ids[1].amount = 12 /\ l.tax_ids[1].price_include

\* C15: the item of a line of 2 units at 100.00 with no discount and one 12%
\* tax included in the price has MontoGravable 178.57, MontoImpuesto 21.43
\* and Total 200.00.
C15_InclusiveTaxScenario ==
    Construido =>
        \A k \in DOMAIN arg.move.invoice_line_ids :
            LineaEscenario(arg.move.invoice_line_ids[k]) =>
                LET item == res.val.items[Incluidas(arg.move.invoice_line_ids, k)]
                IN  /\ item.MontoGravable = 17857
                    /\ item.MontoImpuesto = 2143
                    /\ item.Total = 20000

C15_Witness ==
    /\ Construido
    /\ Len(arg.move.invoice_line_ids) = 2
    /\ LineaEscenario(arg.move.invoice_line_ids[2])
    /\ ~LineaEscenario(arg.move.invoice_line_ids[1])
    /\ res.val.items[Len(res.val.items)].MontoGravable = 17857

\* a credit note, as the builder recognises it
NotaDeCredito(m) == m.move_type = "out_refund" /\ m.fel_tipo_documento = "NCRE"

\* C16: the XML of a credit note has the ReferenciasNota complement exactly
\* when the note has an origin document whose fel_uuid is not empty, and the
\* complement then carries that UUID.
C16_ReferenceIffOriginCertified ==
    (Construido /\ NotaDeCredito(arg.move)) =>
        LET origen == arg.move.reversed_entry_id
        IN  /\ (res.val.complementos # <<>>) <=> (origen.present /\ origen.fel_uuid # "")
            /\ \A i \in DOMAIN res.val.complementos :
                 /\ res.val.complementos[i].IDComplemento = "ReferenciasNota"
                 /\ res.val.complementos[i].NumeroAutorizacionDocumentoOrigen
                        = origen.fel_uuid

C16_Witness ==
    /\ Construido /\ NotaDeCredito(arg.move)
    /\ arg.move.reversed_entry_id.present
    /\ arg.move.reversed_entry_id.fel_uuid = ""
    /\ res.val.complementos = <<>>

\* the last application parsed a rejection that lists error entries
RechazoConErrores ==
    /\ arg # Ninguno /\ arg.fn = "_certificar_documento"
    /\ Get(arg.data, "descripcion_errores", <<>>) # <<>>

\* the human-readable message of an entry, "" when it has none
MensajeDeEntrada(e) ==
    IF "mensaje_error" \in DOMAIN e /\ e.mensaje_error # ""
      THEN e.mensaje_error
      ELSE IF "descripcion" \in DOMAIN e THEN e.descripcion ELSE ""

\* pieces is the messages joined by "; ": the messages at the odd positions,
\* in order, and the separator between them
Unidos(pieces, mensajes) ==
    /\ Len(pieces) = IF mensajes = <<>> THEN 0 ELSE 2 * Len(mensajes) - 1
    /\ \A i \in DOMAIN mensajes : pieces[2 * i - 1] = mensajes[i]
    /\ \A i \in 1..(Len(mensajes) - 1) : pieces[2 * i] = "; "

\* C17 as stated: the text of the error raised for a rejection with error
\* entries is the entries' messages, in list order, joined by '; '.
C17_MessageIsJoinedEntries ==
    RechazoConErrores =>
        /\ res.exc = "UserError"
        /\ Unidos(Texto(res.msg),
                  [i \in DOMAIN arg.data.descripcion_errores |->
                      MensajeDeEntrada(arg.data.descripcion_errores[i])])

\* C17 as amended: the text is 'Error FEL: ' followed by the messages of the
\* entries that have one, in list order, joined by '; '; when no entry has a
\* message it is followed by the answer's descripcion, or 'Error desconocido'.
C17_PrefixedJoinOfNonEmptyMessages ==
    RechazoConErrores =>
        LET errores == arg.data.descripcion_errores
            con_mensaje ==
                SelectSeq([i \in DOMAIN errores |-> MensajeDeEntrada(errores[i])],
                          LAMBDA t : t # "")
            texto == Texto(res.msg)
        IN  /\ res.exc = "UserError"
            /\ texto # <<>> /\ Head(texto) = "Error FEL: "
            /\ IF con_mensaje # <<>>
                 THEN Unidos(Tail(texto), con_mensaje)
                 ELSE Tail(texto) =
                        <<IF "descripcion" \in DOMAIN arg.data
                            THEN arg.data.descripcion ELSE "Error desconocido">>

C17_Witness ==
    /\ RechazoConErrores
    /\ Len(arg.data.descripcion_errores) = 2
    /\ Texto(res.msg) = <<"Error FEL: ", "m1", "; ", "d3">>

(***************************************************************************)
(* Items: numbering, totals, default rate, full discount                   *)
(***************************************************************************)
\* the lines of the last document the builder must keep, in order
LineasEnAlcance == SelectSeq(arg.move.invoice_line_ids, LAMBDA l : ~Excluida(l))

\* C21: the items of a built document are as many as the in-scope lines, in
\* their order, and carry NumeroLinea 1, 2, ..., n.
C21_LineNumbersSequential ==
    Construido =>
        /\ Len(res.val.items) = Len(LineasEnAlcance)
        /\ \A k \in DOMAIN res.val.items :
             /\ res.val.items[k].NumeroLinea = k
             /\ res.val.items[k].Cantidad = Abs(LineasEnAlcance[k].quantity)

C21_Witness ==
    /\ Construido
    /\ Len(res.val.items) = 2
    /\ res.val.items[1].NumeroLinea = 1 /\ res.val.items[2].NumeroLinea = 2
    /\ res.val.items[1].Cantidad # res.val.items[2].Cantidad

\* what the tax engine returns for a line
MotorDeImpuestos(l) ==
    ComputeAll(l.tax_ids, Abs(l.price_unit) * (100 - Abs(l.discount)), 100,
               Abs(l.quantity))

\* C22: the Total of every item is MontoGravable + MontoImpuesto, also when
\* the tax engine's total with taxes is another amount.
C22_TotalIsSumOfComponents ==
    Construido =>
        \A k \in DOMAIN res.val.items :
            res.val.items[k].Total =
                res.val.items[k].MontoGravable + res.val.items[k].MontoImpuesto

C22_Witness ==
    /\ Construido
    /\ Len(res.val.items) = 1
    /\ MotorDeImpuestos(LineasEnAlcance[1]).total_included # res.val.items[1].Total
    /\ res.val.items[1].Total =
           res.val.items[1].MontoGravable + res.val.items[1].MontoImpuesto

\* C23: the 12% default is the tax of a line only when the line has no tax
\* configured and its base is positive; the tax of a line with taxes
\* configured is what the tax engine computed for them.
C23_DefaultRateOnlyWithoutTax ==
    Construido =>
        \A k \in DOMAIN res.val.items :
            LET l == LineasEnAlcance[k]
                motor == MotorDeImpuestos(l)
            IN  IF l.tax_ids = <<>>
                  THEN res.val.items[k].MontoImpuesto =
                           FloatRound(12 * motor.total_excluded, 100)
                  ELSE res.val.items[k].MontoImpuesto =
                           motor.total_included - motor.total_excluded

\* C24: a line of quantity not zero with a 100% discount is an item, with
\* MontoGravable, MontoImpuesto and Total all zero.
C24_FullDiscountItemIsZero ==
    Construido =>
        /\ Len(res.val.items) = Len(LineasEnAlcance)
        /\ \A k \in DOMAIN res.val.items :
             LineasEnAlcance[k].discount = 100 =>
                 /\ res.val.items[k].NumeroLinea = k
                 /\ res.val.items[k].MontoGravable = 0
                 /\ res.val.items[k].MontoImpuesto = 0
                 /\ res.val.items[k].Total = 0

C24_Witness ==
    /\ Construido
    /\ Len(res.val.items) = 2
    /\ LineasEnAlcance[2].discount = 100
    /\ LineasEnAlcance[2].tax_ids # <<>>
    /\ LineasEnAlcance[2].price_unit > 0
    /\ res.val.items[2].Total = 0
    /\ res.val.items[1].Total > 0

(***************************************************************************)
(* Tax ID normalisation                                                    *)
(***************************************************************************)
EsAlfanumerico(c) == c \in {"1", "7", "k", "K", "a", "B"}

Mayuscula(c) == IF c = "k" THEN "K" ELSE IF c = "a" THEN "A" ELSE c

\* C25: the normalised tax ID is the letters and digits of the input, in
\* order, in upper case, or 'CF' when the input is absent; it is never empty.
C25_NitKeepsAlphanumerics ==
    (arg # Ninguno /\ arg.fn = "_limpiar_nit") =>
        LET alfanumericos == SelectSeq(arg.nit, EsAlfanumerico)
        IN  /\ res # <<>>
            /\ res = IF arg.nit = <<>>
                       THEN <<"C", "F">>
                       ELSE [i \in DOMAIN alfanumericos |-> Mayuscula(alfanumericos[i])]

(***************************************************************************)
(* Missing credentials                                                     *)
(***************************************************************************)
\* the last application called a service method without the API user or key
SinCredenciales ==
    /\ arg # Ninguno /\ arg.fn = "servicio"
    /\ (arg.p.usuario_api = "" \/ arg.p.llave_api = "")

\* C26: without the API user or the API key every method that talks to the
\* authority fails before any request is made; called with its argument
\* present, the failure is the configuration error.
C26_NoRequestWithoutCredentials ==
    SinCredenciales =>
        /\ res.exc = "UserError"
        /\ res.calls = <<>>
        /\ ~arg.vacio => res.msg = <<"Configure las credenciales FEL">>

C26_Witness ==
    /\ SinCredenciales
    /\ arg.metodo = "consultar_cui" /\ ~arg.vacio
    /\ arg.login = "ok" /\ arg.post = "ok"
    /\ arg.p.usuario_api # "" /\ arg.p.llave_api = ""
    /\ res.msg = <<"Configure las credenciales FEL">>
    /\ res.calls = <<>>

(***************************************************************************)
(* The description of an item                                              *)
(***************************************************************************)
Entidades ==
    { [car |-> "&", ent |-> <<"&", "a", "m", "p", ";">>],
      [car |-> "<", ent |-> <<"&", "l", "t", ";">>],
      [car |-> ">", ent |-> <<"&", "g", "t", ";">>],
      [car |-> "\"", ent |-> <<"&", "q", "u", "o", "t", ";">>],
      [car |-> "'", ent |-> <<"&", "a", "p", "o", "s", ";">>] }

\* the entities that start at position i of d (at most one)
EntidadesEn(d, i) ==
    { e \in Entidades : /\ i + Len(e.ent) - 1 <= Len(d)
                        /\ SubSeq(d, i, i + Len(e.ent) - 1) = e.ent }

\* position i of d is inside an entity that starts before i
DentroDeEntidad(d, i) ==
    \E k \in 1..(i - 1) :
        /\ i - k < 6
        /\ \E e \in EntidadesEn(d, k) : i <= k + Len(e.ent) - 1

\* d with every entity replaced by its character
Desescapada(d) ==
    LET inicios == SelectSeq([i \in DOMAIN d |-> i], LAMBDA i : ~DentroDeEntidad(d, i))
    IN  [n \in DOMAIN inicios |->
            IF EntidadesEn(d, inicios[n]) # {}
              THEN (CHOOSE e \in EntidadesEn(d, inicios[n]) : TRUE).car
              ELSE d[inicios[n]]]

\* the description of the line of the last application, cut at 500 characters
DescripcionCortada ==
    LET texto == IF arg.name # <<>> THEN arg.name
                 ELSE IF arg.product_name # <<>> THEN arg.product_name
                 ELSE <<"P", "r", "o", "d", "u", "c", "t", "o">>
    IN  SubSeq(texto, 1, IF Len(texto) > 500 THEN 500 ELSE Len(texto))

\* C27: the description written has no raw < > " ', each & in it starts one
\* of the five entities, and replacing the entities by their characters gives
\* the description of the line cut at 500 characters.
C27_DescriptionEscapedRoundTrip ==
    (arg # Ninguno /\ arg.fn = "descripcion") =>
        /\ \A i \in DOMAIN res : res[i] \notin {"<", ">", "\"", "'"}
        /\ \A i \in DOMAIN res : res[i] = "&" => EntidadesEn(res, i) # {}
        /\ Desescapada(res) = DescripcionCortada

C27_Witness ==
    /\ arg # Ninguno /\ arg.fn = "descripcion"
    /\ Len(arg.name) = 501
    /\ arg.name[500] = "&" /\ arg.name[501] = "<"
    /\ Len(res) = 504
    /\ SubSeq(res, 500, 504) = <<"&", "a", "m", "p", ";">>

(***************************************************************************)
(* Invariants of the document                                              *)
(***************************************************************************)
\* C28: a document carries an error message only in state 'error'; a
\* certify or retry that succeeds leaves no message, and a retry clears the
\* message of the failure it retries.
C28_ErrorMessageOnlyInError ==
    /\ move.fel_error_mensaje # "" => move.fel_estado = "error"
    /\ (last.op \in {"certify", "retry"} /\ last.exc = "none") =>
           move.fel_error_mensaje = ""
    /\ (last.op = "retry" /\ prev.fel_estado = "error" /\ move.fel_estado # "error") =>
           move.fel_error_mensaje = ""

C28_Witness ==
    /\ last.op = "retry"
    /\ prev.fel_estado = "error" /\ prev.fel_error_mensaje # ""
    /\ last.exc = "UserError" /\ last.calls # <<>>
    /\ move.fel_estado = "pending" /\ move.fel_error_mensaje = ""

\* C29: a certified or cancelled document has a UUID.
C29_CertifiedHasUuid ==
    move.fel_estado \in {"certified", "cancelled"} => move.fel_uuid # ""

\* C30: after a certification request whose answer was lost (the request
\* was sent, the connection failed), the next certify or retry of the
\* document sends no certification request.
C30_NoSubmissionAfterLostAnswer ==
    [][ (/\ last.op \in {"certify", "retry"}
         /\ last.calls = <<"certificar">>
         /\ last.outcome = <<"conn_error">>)
        => ~(/\ last'.op \in {"certify", "retry"}
             /\ last'.calls = <<"certificar">>) ]_vars

----------------------------------------------------------------------------
\* C32: a certify call rejected by validation leaves every FEL field of the
\* document unchanged (fel_estado, fel_error_mensaje, fel_uuid,
\* fel_xml_enviado, fel_xml_respuesta), builds nothing and makes no remote
\* call; in particular the document does not move to 'error'.
CamposFel ==
    {"fel_estado", "fel_error_mensaje", "fel_uuid", "fel_xml_enviado", "fel_xml_respuesta"}

RechazadaPorValidacion ==
    /\ last.op = "certify"
    /\ ValidarDatosFel(prev, icp) # <<>>

C32_ValidationFailureWritesNothing ==
    RechazadaPorValidacion
        => /\ \A campo \in CamposFel : move[campo] = prev[campo]
           /\ move = prev
           /\ last.exc = "UserError"
           /\ last.msg = ValidarDatosFel(prev, icp)
           /\ last.calls = <<>>
           /\ last.built = <<>>

\* a draft document already in 'pending' with no error message is rejected
C32_Witness ==
    /\ RechazadaPorValidacion
    /\ prev.state = "draft"
    /\ move.fel_estado = "pending"
    /\ last.exc = "UserError"

\* a document left in 'error' by an earlier failure is rejected again
C32_WitnessTrasError ==
    /\ RechazadaPorValidacion
    /\ prev.fel_estado = "error"
    /\ move.fel_estado = "error"

----------------------------------------------------------------------------
\* C33: after a successful certify the document's fel_uuid, fel_serie,
\* fel_numero and fel_numero_acceso equal the unique identifier, series,
\* number and access number contained in the authority's success response,
\* fel_xml_enviado equals the XML that was submitted, and fel_estado is
\* 'certified'.
CertificadoCon(ans) ==
    /\ ans.outcome = "ok"
    /\ CertificarFel(prev, icp, ans).exc = "none"
    /\ CertificarFel(prev, icp, ans).move = move

CertificadoConExito ==
    /\ last.op = "certify"
    /\ last.exc = "none"

C33_CertifiedFieldsEqualResponse ==
    CertificadoConExito
        => \E ans \in SubmitAnswers :
              /\ CertificadoCon(ans)
              /\ move.fel_uuid = ans.uuid
              /\ move.fel_serie = ans.serie
              /\ move.fel_numero = ans.numero
              /\ move.fel_numero_acceso = Get(ans, "numero_acceso", "")
              /\ move.fel_xml_enviado = GenerarXmlDte(prev, icp).val
              /\ move.fel_estado = "certified"

\* the same without the access number
C33_CertifiedFieldsButAccessNumber ==
    CertificadoConExito
        => \E ans \in SubmitAnswers :
              /\ CertificadoCon(ans)
              /\ move.fel_uuid = ans.uuid
              /\ move.fel_serie = ans.serie
              /\ move.fel_numero = ans.numero
              /\ move.fel_xml_enviado = GenerarXmlDte(prev, icp).val
              /\ move.fel_estado = "certified"

\* the access number of the answer is not on the certified document
C33_AccessNumberDropped ==
    /\ CertificadoConExito
    /\ \E ans \in SubmitAnswers :
          /\ CertificadoCon(ans)
          /\ Get(ans, "numero_acceso", "") = "N9"
          /\ move.fel_numero_acceso = ""

(***************************************************************************)
(* Certify and retry on a recordset of several documents: proc is the      *)
(* recordset, arg the input of the last call, res what the caller sees     *)
(***************************************************************************)
MaxLote == 2

\* the requests of document i, in the order they were sent
LlamadasDe(i, calls) == [k \in 1..Len(calls) |-> [doc |-> i, call |-> calls[k]]]

\* what the caller of a call on a recordset sees
Lote(self, exc, msg, calls) == [self |-> self, exc |-> exc, msg |-> msg, calls |-> calls]

\* the requests of the documents that follow, after those sent so far
Tras(calls, resto) == [resto EXCEPT !.calls = calls \o @]

\* lines 177-243: the loop of action_certificar_fel from document i on; r is
\* what the body of the loop did with document i, and an exception leaves
\* the loop
RECURSIVE CertificarLote(_, _, _, _), SigueLote(_, _, _, _, _)
SigueLote(self, p, respuestas, i, r) ==
    IF r.exc # "none"
      THEN Lote([self EXCEPT ![i] = r.move], r.exc, r.msg, LlamadasDe(i, r.calls))
      ELSE Tras(LlamadasDe(i, r.calls),
                CertificarLote([self EXCEPT ![i] = r.move], p, respuestas, i + 1))

CertificarLote(self, p, respuestas, i) ==
    IF i > Len(self)
      THEN Lote(self, "none", <<>>, <<>>)
      ELSE SigueLote(self, p, respuestas, i, CertificarFel(self[i], p, respuestas[i]))

\* lines 324-328: the loop of action_reintentar_fel from document i on
RECURSIVE PrepararLote(_, _)
PrepararLote(self, i) ==
    IF i > Len(self)
      THEN Lote(self, "none", <<>>, <<>>)
    ELSE IF self[i].fel_estado # "error"
      THEN Lote(self, "UserError",
                <<"Solo se pueden reintentar documentos con error.">>, <<>>)
      ELSE PrepararLote([self EXCEPT ![i] = PrepararReintento(self[i])], i + 1)

\* line 330: the certification of the recordset the loop prepared
ReintentarPreparado(preparado, p, respuestas) ==
    IF preparado.exc # "none"
      THEN preparado
      ELSE CertificarLote(preparado.self, p, respuestas, 1)

\* action_reintentar_fel on a recordset
ReintentarLote(self, p, respuestas) ==
    ReintentarPreparado(PrepararLote(self, 1), p, respuestas)

\* documents as the operations leave them: new, in draft, after a failed
\* certification and after a successful one
DocValido ==
    NuevoMove("posted", "out_invoice", [present |-> TRUE, vat |-> "12-3k", name |-> "ACME"],
              "456-7", <<LineProduct>>, NoOrigin, "", "GEN")

DocBorrador == [DocValido EXCEPT !.state = "draft"]

DocConError == CertificarFel(DocValido, ConfigXml, Answer("malformed", "", "", "", "")).move

DocCertificado == CertificarFel(DocValido, ConfigXml, Answer("ok", "U0", "A", "6", "")).move

DocsLote == {DocValido, DocBorrador, DocConError, DocCertificado}

RespuestasLote ==
    { Answer("ok", "U1", "A", "7", "b64:CERT"),
      Answer("rejected", "", "", "", ""),
      Answer("malformed", "", "", "", "") }

InitLote ==
    /\ move = NuevoMove("posted", "out_invoice", NoPartner, "", <<>>, NoOrigin, "", "GEN")
    /\ icp = ConfigXml
    /\ prev = move
    /\ last = NoOp
    /\ certCount = 0
    /\ proc \in SeqHasta(DocsLote, MaxLote)
    /\ arg = Ninguno
    /\ res = Ninguno

\* one call per behaviour on the recordset chosen at the start
\* the call op was made with the answers the authority had ready and did r
LlamadaHecha(op, respuestas, r) ==
    /\ arg' = [op |-> op, self |-> proc, respuestas |-> respuestas]
    /\ res' = [exc |-> r.exc, msg |-> r.msg, calls |-> r.calls]
    /\ proc' = r.self
    /\ UNCHANGED <<move, icp, prev, last, certCount>>

CertificarElLote == \E respuestas \in [1..Len(proc) -> RespuestasLote] :
    /\ arg = Ninguno
    /\ LlamadaHecha("certify", respuestas, CertificarLote(proc, icp, respuestas, 1))

ReintentarElLote == \E respuestas \in [1..Len(proc) -> RespuestasLote] :
    /\ arg = Ninguno
    /\ LlamadaHecha("retry", respuestas, ReintentarLote(proc, icp, respuestas))

NextLote ==
    \/ CertificarElLote
    \/ ReintentarElLote

SpecLote == InitLote /\ [][NextLote]_vars

----------------------------------------------------------------------------
\* the last call on the recordset was op
EnLote(op) == "op" \in DOMAIN arg /\ arg.op = op

TodosConError == \A i \in 1..Len(arg.self) : arg.self[i].fel_estado = "error"

\* the call reached the certification of the recordset
LoteCertificado == EnLote("certify") \/ (EnLote("retry") /\ TodosConError)

\* document i as the certification finds it
Entrada(i) == IF arg.op = "retry" THEN PrepararReintento(arg.self[i]) ELSE arg.self[i]

Falla(i) == CertificarFel(Entrada(i), icp, arg.respuestas[i]).exc # "none"

\* the first document whose certification fails, Len + 1 when none does
PrimeraFalla ==
    LET fallan == {i \in 1..Len(arg.self) : Falla(i)}
    IN  IF fallan = {} THEN Len(arg.self) + 1
        ELSE CHOOSE i \in fallan : \A j \in fallan : i <= j

\* the requests go out in the order of the recordset, one per document at most
EnOrden ==
    \A a, b \in 1..Len(res.calls) : a < b => res.calls[a].doc < res.calls[b].doc

\* the certification stops at the first failing document: the documents before
\* it keep what was applied to them, nothing is sent for a later document
DetenidoEnLaPrimeraFalla ==
    /\ res.exc = "none" <=> PrimeraFalla > Len(arg.self)
    /\ EnOrden
    /\ \A c \in 1..Len(res.calls) : res.calls[c].doc <= PrimeraFalla
    /\ \A j \in 1..Len(arg.self) :
          /\ j < PrimeraFalla
               => /\ proc[j] = CertificarFel(Entrada(j), icp, arg.respuestas[j]).move
                  /\ proc[j].fel_estado = "certified"
                  /\ proc[j].fel_uuid = arg.respuestas[j].uuid
          /\ j > PrimeraFalla => proc[j] = Entrada(j)

\* C31: certify and retry on a batch of documents process them in order and
\* stop at the first failing document: the documents before it keep the result
\* applied to them (certified with their UUID), the failing document and the
\* documents after it are not submitted after the failure; a retry on a batch
\* with a document that is not in 'error' leaves every document of the batch
\* unchanged.
C31_BatchStopsAndRetryIsAllOrNothing ==
    /\ LoteCertificado => DetenidoEnLaPrimeraFalla
    /\ (EnLote("retry") /\ ~TodosConError)
          => /\ proc = arg.self
             /\ res.exc = "UserError"
             /\ res.calls = <<>>

\* the part about the order and the stop
C31_BatchStopsAtFirstFailure == LoteCertificado => DetenidoEnLaPrimeraFalla

\* a retry refused for a document that is not in 'error' sends nothing
C31_RefusedRetrySendsNothing ==
    (EnLote("retry") /\ ~TodosConError)
        => /\ res.exc = "UserError"
           /\ res.calls = <<>>

\* a document certified before the failing one, and one left alone after it
C31_StoppedInTheMiddle ==
    /\ EnLote("certify")
    /\ Len(arg.self) = 2
    /\ res.exc # "none"
    /\ \/ PrimeraFalla = 2 /\ proc[1].fel_estado = "certified"
       \/ PrimeraFalla = 1 /\ arg.respuestas[2].outcome = "ok" /\ proc[2] = DocValido

\* a refused retry that reset the document before the one not in 'error'
C31_RefusedRetryResetEarlierDocument ==
    /\ EnLote("retry")
    /\ res.exc = "UserError"
    /\ res.calls = <<>>
    /\ arg.self = <<DocConError, DocValido>>
    /\ proc[1].fel_estado = "pending"
    /\ proc[1].fel_error_mensaje = ""

====
